---- MODULE Spec2Model ----
(***************************************************************************)
(* Model of the push-queue forwarder of zlog-discord:                      *)
(* PushQueueDiscordClient (src/src/zlog-discord/discord_bot.py).           *)
(*                                                                         *)
(* The loop task is an asyncio coroutine.  It runs synchronously between   *)
(* two awaits, so its position `pc` names the await it is suspended at     *)
(* ("deliver" is the one synchronous position, the top of the for loop).   *)
(* An awaited operation (worker thread, network call) is `inflight`: it is *)
(* started by the task, takes effect on its own (the Thread... and Net...  *)
(* actions), and the task resumes with its result in a later step.         *)
(***************************************************************************)
EXTENDS Integers, Sequences, FiniteSets, TLC

\* ---------------------------------------------------------------- bounds
\* Ids the Queue Store hands out (1..MaxId, never reused).
MaxId == 2

\* ------------------------------------------------------- configuration
\* Python's None for an optional column.
None == "None"

\* Recipients of the rows the environment inserts.
Recipients == {"self", "known"}

\* self._default_channel_id
default_channel_id == 1

\* self._channel_map
channel_map == [r \in {"known"} |-> 42]

Ids == 1..MaxId

ChannelIds == {default_channel_id} \cup {channel_map[r] : r \in DOMAIN channel_map}

\* ---------------------------------------------------------------- state
VARIABLES
    store,          \* Queue Store: the rows of table push, [id, recipient]
    nextId,         \* next id the store hands out
    ready,          \* the Messaging Client's ready event is set
    closed,         \* discord.Client.is_closed()
    task,           \* self._forwarding_task: "none", "running", "cancelled",
                    \*   "returned", "failed"
    pc,             \* await the loop task is suspended at
    batch,          \* notifications of the current cycle
    idx,            \* position of the for loop in batch
    cache,          \* self._channel_cache: channel id -> handle
    channel,        \* local `channel` of the for loop: NoChannel or a handle
    inflight,       \* the awaited operation: [op, arg, st, val]
    cancelReq,      \* task.cancel() was called and not yet delivered
    closePc,        \* position of close(): "idle", "awaiting", "super", "returned"
    healthy,        \* environment: from now on every operation succeeds
    everReady,      \* history: the ready event was set at least once
    attempted,      \* history: ids a send was started for, this cycle, in order
    cycleSent,      \* history: ids whose send succeeded in this cycle
    delivered,      \* history: successful sends per id: "never", "once", "again"
    owed,           \* history: ids whose delete failed after a successful send
    skipped,        \* history: ids passed over this cycle for want of a target
    outcome,        \* history: how the last cycle ended: "none", "ok", "error"
    lookups,        \* history: times the Messaging Client was asked for a
                    \*   channel id in this cycle
    call            \* a call of one of the pure functions: [fn, args, st, result]

vars == <<store, nextId, ready, closed, task, pc, batch, idx, cache, channel,
          inflight, cancelReq, closePc, healthy, everReady, attempted, cycleSent,
          delivered, owed, skipped, outcome, lookups, call>>

hist == <<everReady, attempted, cycleSent, delivered, owed, skipped, outcome, lookups>>

\* What _fetch_channel returns: None, or a handle.
NoChannel == <<>>

\* The channel object the Messaging Client answers with for id c: a
\* Messageable one, or one of another kind.
Handle(c) == <<c, "text">>

OtherChannel(c) == <<c, "other">>

\* isinstance(channel, discord.abc.Messageable)
Messageable(ch) == ch # NoChannel /\ ch[2] = "text"

\* (a cache of one entry: storing a handle would evict the others.)
CachePutEvicting(f, c, ch) == [x \in {c} |-> ch]

\* self._channel_cache[channel_id] = channel
CachePut(f, c, ch) == [x \in DOMAIN f \cup {c} |-> IF x = c THEN ch ELSE f[x]]

Idle == [op |-> "none", arg |-> 0, st |-> "idle", val |-> <<>>]

Pending(o, a) == [op |-> o, arg |-> a, st |-> "pending", val |-> <<>>]

StoreIds == {r.id : r \in store}

InStore(i) == i \in StoreIds

\* ------------------------------------------------------------- helpers
\* The rows of a set in any scan order the storage engine may use.
ScanOrders(S) ==
    {s \in [1..Cardinality(S) -> S] : \A i, j \in 1..Cardinality(S) : i # j => s[i] # s[j]}

RECURSIVE InsertById(_, _)
InsertById(r, s) ==
    IF s = <<>> THEN <<r>>
    ELSE IF r.id <= Head(s).id THEN <<r>> \o s
         ELSE <<Head(s)>> \o InsertById(r, Tail(s))

\* ORDER BY id
RECURSIVE OrderById(_)
OrderById(s) == IF s = <<>> THEN <<>> ELSE InsertById(Head(s), OrderById(Tail(s)))

\* Python's truth value of an Optional[str].
Truthy(x) == x # None /\ x # ""

\* _resolve_channel_id, with self._channel_map and self._default_channel_id
\* as parameters: the id it returns and whether it logs the warning.
ResolveWith(cmap, dflt, recipient) ==
    IF Truthy(recipient) /\ recipient \in DOMAIN cmap
    THEN [id |-> cmap[recipient], warned |-> FALSE]
    ELSE [id |-> dflt, warned |-> Truthy(recipient) /\ recipient # "self"]

\* (every record would go to the default channel.)
ResolveDefaultOnly(recipient) == default_channel_id

\* _resolve_channel_id
ResolveChannelId(recipient) == ResolveWith(channel_map, default_channel_id, recipient).id

\* No pure function is being called.
NoCall == [fn |-> "none", args |-> <<>>, st |-> "none", result |-> <<>>]

\* A call of function f with arguments a, before it runs and after.
Input(f, a) == [fn |-> f, args |-> a, st |-> "input", result |-> <<>>]

Return(c, r) == [c EXCEPT !.st = "done", !.result = r]

\* One more successful send of row i: "never", "once", then "again".
Bump(f, i) == [f EXCEPT ![i] = IF @ = "never" THEN "once" ELSE "again"]

\* ------------------------------------------------------------ initially
EngineInit ==
    /\ store = {}
    /\ nextId = 1
    /\ ready = FALSE
    /\ closed = FALSE
    /\ task = "none"
    /\ pc = "none"
    /\ batch = <<>>
    /\ idx = 0
    /\ cache = <<>>
    /\ channel = NoChannel
    /\ inflight = Idle
    /\ cancelReq = FALSE
    /\ closePc = "idle"
    /\ healthy = FALSE
    /\ everReady = FALSE
    /\ attempted = <<>>
    /\ cycleSent = {}
    /\ delivered = [i \in Ids |-> "never"]
    /\ owed = {}
    /\ skipped = {}
    /\ outcome = "none"
    /\ lookups = [c \in ChannelIds |-> 0]

Init == EngineInit /\ call = NoCall

\* ------------------------------------------------- environment: the store
\* Another process appends a row to table push.
Insert ==
    /\ nextId <= MaxId
    /\ \E r \in Recipients : store' = store \cup {[id |-> nextId, recipient |-> r]}
    /\ nextId' = nextId + 1
    /\ UNCHANGED <<ready, closed, task, pc, batch, idx, cache, channel, inflight,
                   cancelReq, closePc, healthy, hist, call>>

\* From now on every fetch, resolution, send and delete succeeds.
BecomeHealthy ==
    /\ ~healthy
    /\ healthy' = TRUE
    /\ UNCHANGED <<store, nextId, ready, closed, task, pc, batch, idx, cache, channel,
                   inflight, cancelReq, closePc, hist, call>>

\* ------------------------------------------- environment: Messaging Client
\* The session is connected: the ready event is set.
ClientReady ==
    /\ ~ready /\ ~closed
    /\ ready' = TRUE
    /\ everReady' = TRUE
    /\ UNCHANGED <<store, nextId, closed, task, pc, batch, idx, cache, channel,
                   inflight, cancelReq, closePc, healthy, attempted, cycleSent,
                   delivered, owed, skipped, outcome, lookups, call>>

\* The session drops and reconnects: the ready event is cleared.
ClientDisconnect ==
    /\ ready /\ ~closed
    /\ ready' = FALSE
    /\ UNCHANGED <<store, nextId, closed, task, pc, batch, idx, cache, channel,
                   inflight, cancelReq, closePc, healthy, hist, call>>

\* ------------------------------------------------------------ loop task
\* The loop task can take a step: it exists, has not ended, and no
\* cancellation is waiting to be thrown into it.
TaskRuns == task = "running" /\ ~cancelReq

TaskDone == task \in {"cancelled", "returned", "failed"}

\* setup_hook: asyncio.create_task(self._forward_notifications_loop()); the
\* coroutine runs to its first await, wait_until_ready().
SetupHook ==
    /\ task = "none" /\ closePc = "idle"
    /\ task' = "running"
    /\ pc' = "wait_ready"
    /\ UNCHANGED <<store, nextId, ready, closed, batch, idx, cache, channel, inflight,
                   cancelReq, closePc, healthy, hist, call>>

\* `while not self.is_closed():` followed by the start of a cycle, up to the
\* await of asyncio.to_thread(self._fetch_pending_notifications).  The
\* locals of the previous cycle are dead and are reset.
StartCycle ==
    IF closed
    THEN /\ task' = "returned"
         /\ pc' = "done"
         /\ UNCHANGED <<batch, idx, channel, inflight, attempted, cycleSent, skipped,
                        outcome, lookups>>
    ELSE /\ task' = task
         /\ pc' = "fetch"
         /\ inflight' = Pending("fetch", 0)
         /\ batch' = <<>>
         /\ idx' = 0
         /\ channel' = NoChannel
         /\ attempted' = <<>>
         /\ cycleSent' = {}
         /\ skipped' = {}
         /\ outcome' = "none"
         /\ lookups' = [c \in ChannelIds |-> 0]

\* (The loop would not wait for the ready event.)
WaitUntilReadySkipped == TRUE

\* await self.wait_until_ready(): returns once the ready event is set.
WaitUntilReady == ready

\* The first cycle begins.
LoopStart ==
    /\ TaskRuns /\ pc = "wait_ready"
    /\ WaitUntilReady
    /\ StartCycle
    /\ UNCHANGED <<store, nextId, ready, closed, cache, cancelReq, closePc, healthy,
                   everReady, delivered, owed, call>>

\* await asyncio.sleep(self._poll_interval) returns; the next cycle begins.
SleepDone ==
    /\ TaskRuns /\ pc = "sleep"
    /\ StartCycle
    /\ UNCHANGED <<store, nextId, ready, closed, cache, cancelReq, closePc, healthy,
                   everReady, delivered, owed, call>>

\* The result of an awaited operation once it has run: kept for the task to
\* resume with, dropped when the task no longer exists.
Completed(o, a, s, v) ==
    IF task = "running" THEN [op |-> o, arg |-> a, st |-> s, val |-> v] ELSE Idle

\* (The query would lack its ORDER BY.)
FetchUnordered(scan) ==
    [k \in 1..Len(scan) |-> [id |-> scan[k].id, recipient |-> scan[k].recipient]]

\* select(Push).order_by(Push.id) over a scan of the table, each row copied
\* into a PushNotification.
FetchPendingNotifications(scan) ==
    LET rows == OrderById(scan)
    IN  [k \in 1..Len(rows) |-> [id |-> rows[k].id, recipient |-> rows[k].recipient]]

\* Worker thread: _fetch_pending_notifications returns the rows, or raises
\* (the store is unreachable).
ThreadFetch ==
    /\ inflight.op = "fetch" /\ inflight.st = "pending"
    /\ \/ \E scan \in ScanOrders(store) :
            inflight' = Completed("fetch", 0, "ok", FetchPendingNotifications(scan))
       \/ /\ ~healthy
          /\ inflight' = Completed("fetch", 0, "err", <<>>)
    /\ UNCHANGED <<store, nextId, ready, closed, task, pc, batch, idx, cache, channel,
                   cancelReq, closePc, healthy, hist, call>>

\* (Without the try/except of the loop the exception would end the task.)
CycleErrorFatal ==
    /\ task' = "failed"
    /\ pc' = "done"
    /\ idx' = idx
    /\ outcome' = "error"

\* (The exception would be swallowed inside the for loop, which would go on
\* with the next record.)
CycleErrorContinue ==
    /\ task' = task
    /\ IF idx < Len(batch)
       THEN pc' = "deliver" /\ idx' = idx + 1 /\ outcome' = outcome
       ELSE pc' = "sleep" /\ idx' = idx /\ outcome' = "ok"

\* The except clause of the loop: log, then fall to the sleep.
CycleError ==
    /\ task' = task
    /\ pc' = "sleep"
    /\ idx' = idx
    /\ outcome' = "error"

\* for notification in notifications: the next record, or the end of the
\* cycle, which falls to the sleep.
NextRecord ==
    /\ task' = task
    /\ IF idx < Len(batch)
       THEN /\ pc' = "deliver"
            /\ idx' = idx + 1
            /\ outcome' = outcome
       ELSE /\ pc' = "sleep"
            /\ idx' = idx
            /\ outcome' = "ok"

\* The task resumes from to_thread(fetch): `if notifications:` deliver them.
FetchResume ==
    /\ TaskRuns /\ pc = "fetch"
    /\ inflight.op = "fetch" /\ inflight.st \in {"ok", "err"}
    /\ inflight' = Idle
    /\ IF inflight.st = "err"
       THEN CycleError /\ batch' = batch
       ELSE /\ batch' = inflight.val
            /\ task' = task
            /\ IF inflight.val # <<>>
               THEN pc' = "deliver" /\ idx' = 1 /\ outcome' = outcome
               ELSE pc' = "sleep" /\ idx' = 0 /\ outcome' = "ok"
    /\ UNCHANGED <<store, nextId, ready, closed, cache, channel, cancelReq, closePc,
                   healthy, everReady, attempted, cycleSent, delivered, owed, skipped, lookups, call>>

\* The current record of the for loop.
Notification == batch[idx]

\* _fetch_channel returned the handle ch: await
\* channel.send(notification.to_discord_message()) is started on it.
StartSend(ch) ==
    /\ channel' = ch
    /\ pc' = "send"
    /\ inflight' = Pending("send", Notification.id)
    /\ attempted' = Append(attempted, Notification.id)
    /\ UNCHANGED <<task, idx, outcome, skipped>>

\* (`return` in place of `continue`: the rest of the batch would be left.)
SkipRecordReturn ==
    /\ channel' = NoChannel
    /\ inflight' = Idle
    /\ task' = task /\ pc' = "sleep" /\ idx' = idx /\ outcome' = "ok"
    /\ attempted' = attempted
    /\ skipped' = skipped \cup {Notification.id}

\* _fetch_channel returned None: log and `continue`.
SkipRecord ==
    /\ channel' = NoChannel
    /\ inflight' = Idle
    /\ NextRecord
    /\ attempted' = attempted
    /\ skipped' = skipped \cup {Notification.id}

\* The end of _fetch_channel, with the channel object ch the Messaging
\* Client gave for channel_id: a Messageable one is cached and returned and
\* the send starts, one of another kind gives None.
FetchChannelEnd(channel_id, ch) ==
    IF Messageable(ch)
    THEN /\ cache' = CachePut(cache, channel_id, ch)
         /\ StartSend(ch)
    ELSE /\ cache' = cache
         /\ SkipRecord

\* (the cache is not consulted: every call asks the Messaging Client.)
CacheNeverHit(channel_id) == FALSE

\* `channel_id in self._channel_cache`
CacheHit(channel_id) == channel_id \in DOMAIN cache

\* Top of the for loop: _resolve_channel_id (never None, the default id is
\* an integer), then _fetch_channel up to its first await.  A cached handle
\* needs no await and no lookup.  Otherwise the Messaging Client is asked:
\* get_channel returns a channel object (Messageable, or of another kind),
\* or None, which leads to await self.fetch_channel.
\* (dedupe: the loop would pass over a record it has delivered before; the
\* code does not.)
DeliverStep(dedupe) ==
    /\ TaskRuns /\ pc = "deliver"
    /\ LET channel_id == ResolveChannelId(Notification.recipient)
       IN  IF dedupe /\ delivered[Notification.id] # "never"
           THEN NextRecord
                /\ UNCHANGED <<cache, channel, inflight, attempted, skipped, lookups>>
           ELSE IF CacheHit(channel_id)
           THEN StartSend(cache[channel_id]) /\ UNCHANGED <<cache, lookups>>
           ELSE /\ lookups' = [lookups EXCEPT ![channel_id] = @ + 1]
                /\ \/ /\ pc' = "fetch_channel"
                      /\ inflight' = Pending("fetch_channel", channel_id)
                      /\ UNCHANGED <<task, idx, outcome, attempted, cache, channel,
                                     skipped>>
                   \/ FetchChannelEnd(channel_id, Handle(channel_id))
                   \/ /\ ~healthy
                      /\ FetchChannelEnd(channel_id, OtherChannel(channel_id))
    /\ UNCHANGED <<store, nextId, ready, closed, batch, cancelReq, closePc, healthy,
                   everReady, cycleSent, delivered, owed, call>>

DeliverDedupe == DeliverStep(TRUE)

Deliver == DeliverStep(FALSE)

\* Messaging Client: fetch_channel answers with a Messageable channel
\* ("ok"), with a channel that is not Messageable ("other"), or raises.
NetFetchChannel ==
    /\ inflight.op = "fetch_channel" /\ inflight.st = "pending"
    /\ LET c == inflight.arg
       IN  \/ inflight' = Completed("fetch_channel", c, "ok", Handle(c))
           \/ /\ ~healthy
              /\ inflight' = Completed("fetch_channel", c, "ok", OtherChannel(c))
           \/ /\ ~healthy
              /\ inflight' = Completed("fetch_channel", c, "err", NoChannel)
    /\ UNCHANGED <<store, nextId, ready, closed, task, pc, batch, idx, cache, channel,
                   cancelReq, closePc, healthy, hist, call>>

\* The task resumes from await self.fetch_channel(channel_id): an exception
\* gives None, a channel object goes to the end of _fetch_channel.
FetchChannelResume ==
    /\ TaskRuns /\ pc = "fetch_channel"
    /\ inflight.op = "fetch_channel" /\ inflight.st \in {"ok", "err"}
    /\ IF inflight.st = "ok"
       THEN FetchChannelEnd(inflight.arg, inflight.val)
       ELSE /\ cache' = cache
            /\ SkipRecord
    /\ UNCHANGED <<store, nextId, ready, closed, batch, cancelReq, closePc, healthy,
                   everReady, cycleSent, delivered, owed, lookups, call>>

\* Messaging Client: the platform accepts the message, or the send raises.
NetSend ==
    /\ inflight.op = "send" /\ inflight.st = "pending"
    /\ \/ /\ inflight' = Completed("send", inflight.arg, "ok", <<>>)
          /\ cycleSent' = cycleSent \cup {inflight.arg}
          /\ delivered' = Bump(delivered, inflight.arg)
          /\ owed' = owed \ {inflight.arg}
       \/ /\ ~healthy
          /\ inflight' = Completed("send", inflight.arg, "err", <<>>)
          /\ UNCHANGED <<cycleSent, delivered, owed>>
    /\ UNCHANGED <<store, nextId, ready, closed, task, pc, batch, idx, cache, channel,
                   cancelReq, closePc, healthy, everReady, attempted, skipped, outcome, lookups, call>>

\* The task resumes from await channel.send(...): on an exception log and
\* `continue`, else await asyncio.to_thread(self._delete_push_row, id).
\* (onError: what the except clause does, "continue" in the code;
\* onSuccess: what follows the try, "delete" in the code.)
SendResumeStep(onError, onSuccess) ==
    /\ TaskRuns /\ pc = "send"
    /\ inflight.op = "send" /\ inflight.st \in {"ok", "err"}
    /\ IF (inflight.st = "ok" /\ onSuccess = "delete")
          \/ (inflight.st = "err" /\ onError = "fall_through")
       THEN /\ pc' = "delete"
            /\ inflight' = Pending("delete", Notification.id)
            /\ UNCHANGED <<task, idx, outcome>>
       ELSE IF inflight.st = "err" /\ onError = "raise"
       THEN /\ inflight' = Idle
            /\ CycleError
       ELSE IF inflight.st = "err" /\ onError = "retry"
       THEN /\ inflight' = Idle
            /\ pc' = "deliver"
            /\ UNCHANGED <<task, idx, outcome>>
       ELSE /\ inflight' = Idle
            /\ NextRecord
    /\ UNCHANGED <<store, nextId, ready, closed, batch, cache, channel, cancelReq,
                   closePc, healthy, everReady, attempted, cycleSent, delivered, owed,
                   skipped, lookups, call>>

SendResumeFallThrough == SendResumeStep("fall_through", "delete")

SendResumeRaise == SendResumeStep("raise", "delete")

SendResumeNoDelete == SendResumeStep("continue", "next")

SendResumeRetry == SendResumeStep("retry", "delete")

SendResume == SendResumeStep("continue", "delete")

\* Worker thread: _delete_push_row commits DELETE ... WHERE id = row_id, or
\* raises and changes nothing.
ThreadDelete ==
    /\ inflight.op = "delete" /\ inflight.st = "pending"
    /\ \/ /\ store' = {r \in store : r.id # inflight.arg}
          /\ inflight' = Completed("delete", inflight.arg, "ok", <<>>)
          /\ owed' = owed
       \/ /\ ~healthy
          /\ store' = store
          /\ inflight' = Completed("delete", inflight.arg, "err", <<>>)
          /\ owed' = owed \cup {inflight.arg}
    /\ UNCHANGED <<nextId, ready, closed, task, pc, batch, idx, cache, channel,
                   cancelReq, closePc, healthy, everReady, attempted, cycleSent,
                   delivered, skipped, outcome, lookups, call>>

\* (After the delete the for loop would take the same record again.)
DeleteResumeRedeliver ==
    /\ TaskRuns /\ pc = "delete"
    /\ inflight.op = "delete" /\ inflight.st \in {"ok", "err"}
    /\ inflight' = Idle
    /\ IF inflight.st = "ok"
       THEN task' = task /\ pc' = "deliver" /\ idx' = idx /\ outcome' = outcome
       ELSE CycleError
    /\ UNCHANGED <<store, nextId, ready, closed, batch, cache, channel, cancelReq,
                   closePc, healthy, everReady, attempted, cycleSent, delivered, owed,
                   skipped, lookups, call>>

\* The task resumes from to_thread(delete): the next record, or the delete's
\* exception leaves _deliver_notifications and is caught by the loop.
DeleteResume ==
    /\ TaskRuns /\ pc = "delete"
    /\ inflight.op = "delete" /\ inflight.st \in {"ok", "err"}
    /\ inflight' = Idle
    /\ IF inflight.st = "ok" THEN NextRecord ELSE CycleError
    /\ UNCHANGED <<store, nextId, ready, closed, batch, cache, channel, cancelReq,
                   closePc, healthy, everReady, attempted, cycleSent, delivered, owed,
                   skipped, lookups, call>>

\* ---------------------------------------------------------------- close()
\* close() runs on the event loop, so only while the loop task is suspended
\* at an await (or does not exist).
TaskSuspended == task # "running" \/ pc # "deliver"

\* (close() would not wait for the task.)
AwaitSkipped == TRUE

\* `await self._forwarding_task` returns once the task is done; its
\* CancelledError is suppressed.
AwaitForwardingTask == TaskDone

\* close(): self._forwarding_task.cancel(), then await it; without a task
\* straight to super().close().
CloseCancel ==
    /\ closePc = "idle"
    /\ TaskSuspended
    /\ IF task = "none"
       THEN closePc' = "super" /\ closed' = TRUE /\ cancelReq' = cancelReq
       ELSE closePc' = "awaiting" /\ closed' = closed /\ cancelReq' = (task = "running")
    /\ UNCHANGED <<store, nextId, ready, task, pc, batch, idx, cache, channel, inflight,
                   healthy, hist, call>>

\* CancelledError is thrown into the coroutine at the await it is suspended
\* at (pc keeps that position); no handler of the loop catches it.  An
\* awaited operation that has not run yet is either withdrawn or left to run
\* on its own; a result not yet consumed is dropped.
TaskCancelled ==
    /\ task = "running" /\ cancelReq
    /\ task' = "cancelled"
    /\ cancelReq' = FALSE
    /\ \/ inflight' = Idle
       \/ inflight.st = "pending" /\ inflight' = inflight
    /\ UNCHANGED <<store, nextId, ready, closed, pc, batch, idx, cache, channel,
                   closePc, healthy, hist, call>>

\* The await of the task is over: await super().close().
CloseSuper ==
    /\ closePc = "awaiting"
    /\ AwaitForwardingTask
    /\ closePc' = "super"
    /\ closed' = TRUE
    /\ UNCHANGED <<store, nextId, ready, task, pc, batch, idx, cache, channel, inflight,
                   cancelReq, healthy, hist, call>>

\* close() returns.
CloseReturn ==
    /\ closePc = "super"
    /\ closePc' = "returned"
    /\ UNCHANGED <<store, nextId, ready, closed, task, pc, batch, idx, cache, channel,
                   inflight, cancelReq, healthy, hist, call>>

\* ------------------------------------------------------------------ spec
Next ==
    \/ Insert
    \/ BecomeHealthy
    \/ ClientReady
    \/ ClientDisconnect
    \/ SetupHook
    \/ LoopStart
    \/ SleepDone
    \/ ThreadFetch
    \/ FetchResume
    \/ Deliver
    \/ NetFetchChannel
    \/ FetchChannelResume
    \/ NetSend
    \/ SendResume
    \/ ThreadDelete
    \/ DeleteResume
    \/ CloseCancel
    \/ TaskCancelled
    \/ CloseSuper
    \/ CloseReturn

Spec == Init /\ [][Next]_vars

\* The steps of the loop task and of the operations it awaits.  The event
\* loop resumes a task whose await has completed, the executor runs a
\* submitted call, a network call returns or raises, a sleep ends.
LoopStep ==
    \/ LoopStart
    \/ SleepDone
    \/ ThreadFetch
    \/ FetchResume
    \/ Deliver
    \/ NetFetchChannel
    \/ FetchChannelResume
    \/ NetSend
    \/ SendResume
    \/ ThreadDelete
    \/ DeleteResume

FairSpec == Spec /\ WF_vars(LoopStep)

TypeOK ==
    /\ StoreIds \subseteq 1..(nextId - 1)
    /\ task \in {"none", "running", "cancelled", "returned", "failed"}
    /\ pc \in {"none", "wait_ready", "fetch", "deliver", "fetch_channel", "send",
               "delete", "sleep", "done"}
    /\ DOMAIN cache \subseteq ChannelIds
    /\ channel \in {NoChannel} \cup {Handle(c) : c \in ChannelIds}
    /\ \A c \in ChannelIds : lookups[c] \in 0..Len(batch)
    /\ idx \in 0..Len(batch)
    /\ inflight.op \in {"none", "fetch", "fetch_channel", "send", "delete"}

\* ====================================================== the pure functions
\* Calls of _resolve_channel_id, parse_channel_map and to_discord_message on
\* inputs drawn from bounded sets: `call` holds the input, the step of the
\* function replaces it by the result.  The engine's variables stay as
\* constructed.

\* ----------------------------------------------------- _resolve_channel_id
\* Channel maps, default ids and recipients _resolve_channel_id is called with.
MapKeys == {"self", "known"}

ChannelMaps == UNION {[K -> {42, 43}] : K \in SUBSET MapKeys}

DefaultIds == {1, 2}

RecipientInputs == {None, "", "self", "known", "unmapped"}

ResolveInputs ==
    {Input("resolve", [cmap |-> cm, dflt |-> d, recipient |-> r]) :
        cm \in ChannelMaps, d \in DefaultIds, r \in RecipientInputs}

ResolveChannelIdCall ==
    /\ call.fn = "resolve" /\ call.st = "input"
    /\ call' = Return(call, ResolveWith(call.args.cmap, call.args.dflt, call.args.recipient))
    /\ UNCHANGED <<store, nextId, ready, closed, task, pc, batch, idx, cache, channel,
                   inflight, cancelReq, closePc, healthy, hist>>

\* ------------------------------------------------------ parse_channel_map
\* A str is the sequence of its characters.
Whitespace == {" ", "\t", "\n"}

Digits == {"0", "1", "2", "3", "4", "5", "6", "7", "8", "9"}

DigitVal(ch) == CHOOSE v \in 0..9 : <<"0", "1", "2", "3", "4", "5", "6", "7", "8", "9">>[v + 1] = ch

\* str.strip()
RECURSIVE LStrip(_)
LStrip(s) == IF s # <<>> /\ Head(s) \in Whitespace THEN LStrip(Tail(s)) ELSE s

RECURSIVE RStrip(_)
RStrip(s) ==
    IF s # <<>> /\ s[Len(s)] \in Whitespace THEN RStrip(SubSeq(s, 1, Len(s) - 1)) ELSE s

Strip(s) == RStrip(LStrip(s))

\* Position of the first ch in s, 0 when there is none (`ch in s`).
IndexOf(s, ch) ==
    IF \E i \in 1..Len(s) : s[i] = ch
    THEN CHOOSE i \in 1..Len(s) : s[i] = ch /\ \A j \in 1..(i - 1) : s[j] # ch
    ELSE 0

\* s.split(sep)
RECURSIVE Split(_, _)
Split(s, sep) ==
    LET i == IndexOf(s, sep)
    IN  IF i = 0 THEN <<s>>
        ELSE <<SubSeq(s, 1, i - 1)>> \o Split(SubSeq(s, i + 1, Len(s)), sep)

\* s.split(sep, 1), for an s that holds sep
SplitOnce(s, sep) ==
    LET i == IndexOf(s, sep) IN <<SubSeq(s, 1, i - 1), SubSeq(s, i + 1, Len(s))>>

\* sep.join(parts)
RECURSIVE Join(_, _)
Join(parts, sep) ==
    IF parts = <<>> THEN <<>>
    ELSE IF Len(parts) = 1 THEN parts[1]
         ELSE parts[1] \o <<sep>> \o Join(Tail(parts), sep)

\* The digits of an int literal, underscores dropped.
RECURSIVE DigitsOf(_)
DigitsOf(s) ==
    IF s = <<>> THEN <<>>
    ELSE IF Head(s) = "_" THEN DigitsOf(Tail(s))
         ELSE <<Head(s)>> \o DigitsOf(Tail(s))

RECURSIVE Magnitude(_)
Magnitude(s) ==
    IF s = <<>> THEN 0 ELSE 10 * Magnitude(SubSeq(s, 1, Len(s) - 1)) + DigitVal(s[Len(s)])

Unsigned(s) == IF s # <<>> /\ Head(s) \in {"+", "-"} THEN Tail(s) ELSE s

\* int(s) does not raise ValueError, for a stripped s: an optional sign,
\* then digits, with single underscores allowed between digits.
IsInt(s) ==
    LET u == Unsigned(s)
    IN  /\ u # <<>>
        /\ \A i \in 1..Len(u) : u[i] \in Digits \cup {"_"}
        /\ u[1] # "_" /\ u[Len(u)] # "_"
        /\ \A i \in 1..(Len(u) - 1) : ~(u[i] = "_" /\ u[i + 1] = "_")

\* int(s)
IntOf(s) ==
    IF Head(s) = "-" THEN 0 - Magnitude(DigitsOf(Unsigned(s)))
    ELSE Magnitude(DigitsOf(Unsigned(s)))

\* mapping[recipient] = value
DictPut(f, k, v) == [x \in DOMAIN f \cup {k} |-> IF x = k THEN v ELSE f[x]]

\* LOGGER.warning(...), kind "malformed" (lines 228, 232) or "invalid_id"
Warn(acc, kind) == [acc EXCEPT !.warnings = Append(@, kind)]

\* One turn of the for loop of parse_channel_map.
\* (blank: what is done with an entry that is blank; the code skips it.)
ParseEntryWith(acc, entry, blank) ==
    IF Strip(entry) = <<>> THEN (IF blank = "skip" THEN acc ELSE Warn(acc, "malformed"))
    ELSE IF IndexOf(entry, "=") = 0 THEN Warn(acc, "malformed")
    ELSE LET recipient == Strip(SplitOnce(entry, "=")[1])
             channel_id == Strip(SplitOnce(entry, "=")[2])
         IN  IF recipient = <<>> \/ channel_id = <<>> THEN Warn(acc, "malformed")
             ELSE IF IsInt(channel_id)
                  THEN [acc EXCEPT !.mapping = DictPut(@, recipient, IntOf(channel_id))]
                  ELSE Warn(acc, "invalid_id")

ParseEntryNoisy(acc, entry) == ParseEntryWith(acc, entry, "warn")

ParseEntry(acc, entry) == ParseEntryWith(acc, entry, "skip")

RECURSIVE ParseEntries(_, _)
ParseEntries(acc, entries) ==
    IF entries = <<>> THEN acc
    ELSE ParseEntries(ParseEntry(acc, Head(entries)), Tail(entries))

\* parse_channel_map: the mapping it returns and the warnings it logs.
ParseChannelMap(raw_mapping) ==
    IF raw_mapping = <<>> THEN [mapping |-> <<>>, warnings |-> <<>>]
    ELSE ParseEntries([mapping |-> <<>>, warnings |-> <<>>], Split(raw_mapping, ","))

\* Entries the configuration string is put together from.
MaxEntries == 3

EntryPool ==
    {<<"a", "=", "1">>,
     <<"a", "=", "2">>,
     <<"b", "=", "7">>,
     <<" ", "b", " ", "=", " ", "7", " ">>,
     <<"b", "=">>,
     <<"=", "2">>,
     <<"c", "=", "x", "1">>,
     <<"a">>,
     <<" ">>,
     <<"a", "=", "1", "=", "2">>,
     <<"b", "=", "-", "7">>,
     <<"a", "=", "1", "_", "0">>}

\* "a=1,b=,=2,c=xyz,d=7"
ExampleMap == <<"a", "=", "1", ",", "b", "=", ",", "=", "2", ",", "c", "=", "x", "y", "z", ",", "d", "=", "7">>

RawMappings ==
    {ExampleMap} \cup
    {Join(es, ",") : es \in UNION {[1..n -> EntryPool] : n \in 0..MaxEntries}}

ParseInputs == {Input("parse", raw) : raw \in RawMappings}

ParseChannelMapCall ==
    /\ call.fn = "parse" /\ call.st = "input"
    /\ call' = Return(call, ParseChannelMap(call.args))
    /\ UNCHANGED <<store, nextId, ready, closed, task, pc, batch, idx, cache, channel,
                   inflight, cancelReq, closePc, healthy, hist>>

\* ----------------------------------------------------- to_discord_message
\* Discord's limit on the length of a message, and the length kept in front
\* of the "..." of a truncated one.
DiscordLimit == 2000

CutLen == 1997

\* None, for an Optional[str] that is otherwise a sequence of characters.
Null == <<None>>

\* `a or b` for an Optional[str] a
Or(a, b) == IF a # Null /\ a # <<>> THEN a ELSE b

\* The text before the length test: header, author and body, stripped.
Content(n) ==
    LET header == <<"[">> \o n.network \o <<"]", " ">> \o n.window \o <<" ", "(">>
                      \o n.type \o <<")">>
        author == Or(n.nick, Or(n.user, <<"U", "n", "k", "n", "o", "w", "n">>))
        body == Or(n.message, <<>>)
    IN  Strip(header \o <<"\n">> \o author \o <<":", " ">> \o body)

\* (a hard cut at the limit, without the "...".)
TruncatedHard(content) == SubSeq(content, 1, DiscordLimit)

\* content[:1997] + "..."
Truncated(content) == SubSeq(content, 1, CutLen) \o <<".", ".", ".">>

\* to_discord_message: the text it returns and whether it logs the
\* truncation warning.
ToDiscordMessage(n) ==
    IF Len(Content(n)) > DiscordLimit
    THEN [text |-> Truncated(Content(n)), logged |-> TRUE]
    ELSE [text |-> Content(n), logged |-> FALSE]

\* Messages are as long as MaxMessageLen, so that with the header and the
\* author in front the text ends on either side of the limit.
MaxMessageLen == 1990

Repeat(ch, k) == [i \in 1..k |-> ch]

MessageInputs ==
    {Null, <<>>, <<"h", "i">>, <<"h", "i", " ">>}
      \cup {Repeat("m", k) \o Repeat(" ", b) :
               k \in (MaxMessageLen - 12)..MaxMessageLen, b \in 0..2}

AuthorInputs == {Null, <<>>, <<"k">>}

FormatInputs ==
    {Input("format", [network |-> <<"n">>, window |-> <<"#", "w">>, type |-> <<"t">>,
                      user |-> u, nick |-> k, message |-> msg]) :
        u \in AuthorInputs, k \in AuthorInputs, msg \in MessageInputs}

ToDiscordMessageCall ==
    /\ call.fn = "format" /\ call.st = "input"
    /\ call' = Return(call, ToDiscordMessage(call.args))
    /\ UNCHANGED <<store, nextId, ready, closed, task, pc, batch, idx, cache, channel,
                   inflight, cancelReq, closePc, healthy, hist>>

\* ------------------------------------------------------------------ calls
PureInit ==
    /\ EngineInit
    /\ \/ call \in ResolveInputs
       \/ call \in ParseInputs
       \/ call \in FormatInputs

PureNext ==
    \/ ResolveChannelIdCall
    \/ ParseChannelMapCall
    \/ ToDiscordMessageCall

PureSpec == PureInit /\ [][PureNext]_vars

\* =================================================================== claims
BatchIds == {batch[k].id : k \in 1..Len(batch)}

AttemptedIds == {attempted[k] : k \in 1..Len(attempted)}

Handed == 1..(nextId - 1)

\* The loop has passed position k of the batch in this cycle.
Passed(k) == k < idx \/ (k = idx /\ pc = "sleep")

\* C1: a row leaves the Queue Store only in a step taken after a send for
\* that row succeeded in the current cycle; a row no send has succeeded for
\* is never removed.
C1_DeleteOnlyAfterSend ==
    [][\A i \in Ids :
          (InStore(i) /\ ~InStore(i)') => (i \in cycleSent /\ delivered[i] # "never")]_vars

C1_Witness ==
    \E i \in Handed : ~InStore(i) /\ i \in cycleSent /\ pc = "sleep"

\* C2: a row whose delete failed after its send succeeded is still in the
\* Queue Store, is in the batch of every later cycle whose fetch returned,
\* and has a send started for it again as soon as the loop of such a cycle
\* has passed it (its handle is cached, so it cannot be skipped).
C2_ResentAfterFailedDelete ==
    \A i \in owed :
        /\ InStore(i)
        /\ (task = "running" /\ pc \in {"deliver", "fetch_channel", "send", "delete"})
              => i \in BatchIds
        /\ \A k \in 1..Len(batch) : (batch[k].id = i /\ Passed(k)) => i \in AttemptedIds

C2_Witness ==
    \E i \in Ids : delivered[i] = "again" /\ i \in cycleSent /\ i \in AttemptedIds
                   /\ InStore(i) /\ pc = "delete"

\* C3: once polling has started and every operation succeeds from now on,
\* each row in the Queue Store is eventually sent and deleted, unless
\* close() is called; whatever happened in earlier cycles.
C3_SelfHeals ==
    \A i \in Ids :
        (healthy /\ InStore(i) /\ task # "none" /\ pc # "wait_ready")
            ~> ((~InStore(i) /\ delivered[i] # "never") \/ closePc # "idle")

C3_Witness ==
    /\ healthy /\ closePc = "idle" /\ outcome = "ok" /\ pc = "sleep"
    /\ \E i \in Handed : ~InStore(i) /\ delivered[i] = "again" /\ i \in cycleSent

\* The loop task takes a step of its own (not one of the environment, and
\* not the delivery of a cancellation).
TaskSteps == TaskRuns /\ (pc' # pc \/ idx' # idx \/ task' # task)

\* After the current record the loop goes on with the rest of the batch.
GoesOn ==
    /\ task' = "running"
    /\ idx < Len(batch) => (pc' = "deliver" /\ idx' = idx + 1)
    /\ idx = Len(batch) => (pc' = "sleep" /\ outcome' = "ok")

\* Ids of this cycle whose send was attempted and has failed.
SendFailedIds == {i \in AttemptedIds \ cycleSent : ~(inflight.op = "send" /\ inflight.arg = i)}

\* C4: when the task resumes from a send that raised, nothing is deleted,
\* no delete is started, the task keeps running and goes on with the next
\* record of the batch (or ends the cycle normally); a row whose send failed
\* stays in the Queue Store for the rest of the cycle, and a fetch that
\* returns, returns every row of the store.
C4_SendFailureSkipsRecord ==
    /\ [][(TaskSteps /\ pc = "send" /\ inflight.st = "err")
            => (store' = store /\ inflight'.op # "delete" /\ GoesOn)]_vars
    /\ [](\A i \in SendFailedIds : InStore(i))
    /\ [][(inflight.op = "fetch" /\ inflight.st = "pending" /\ inflight'.st = "ok")
            => {inflight'.val[k].id : k \in 1..Len(inflight'.val)} = StoreIds]_vars

C4_Witness ==
    /\ task = "running" /\ pc = "delete" /\ idx = 2
    /\ batch[1].id \in SendFailedIds /\ InStore(batch[1].id)
    /\ batch[2].id \in cycleSent

\* C5: when _fetch_channel returns None for the record's channel id, the
\* step stores nothing in the cache, starts no send and no delete, leaves
\* the store alone and goes on with the next record; for the rest of the
\* cycle no send and no delete is made for that record and its row stays in
\* the Queue Store.
C5_NullTargetSkipsRecord ==
    /\ [][(TaskSteps /\ pc \in {"deliver", "fetch_channel"} /\ pc' # "fetch_channel"
              /\ channel' = NoChannel)
            => (cache' = cache /\ store' = store /\ attempted' = attempted
                /\ inflight'.op \notin {"send", "delete"} /\ GoesOn)]_vars
    /\ [](\A i \in skipped :
             /\ InStore(i)
             /\ i \notin AttemptedIds
             /\ ~(inflight.op \in {"send", "delete"} /\ inflight.arg = i))

C5_Witness ==
    /\ task = "running" /\ pc = "send" /\ idx = 2
    /\ batch[1].id \in skipped
    /\ ResolveChannelId(batch[1].recipient) \notin DOMAIN cache

\* C6: the sends attempted in one cycle are in strictly ascending id order,
\* whatever order the scan of the table had.
C6_AscendingIdOrder ==
    \A j, k \in 1..Len(attempted) : j < k => attempted[j] < attempted[k]

C6_Witness == Len(attempted) = 2 /\ pc = "send"

\* C7: the loop task never ends with an exception; a failed fetch or a
\* failed delete ends the cycle only: the task goes to the sleep, and its
\* next step from there starts the next cycle's fetch.
C7_NoExceptionLeavesLoop ==
    /\ [](task # "failed")
    /\ [][(TaskSteps /\ pc \in {"fetch", "delete"} /\ inflight.st = "err")
            => (task' = "running" /\ pc' = "sleep" /\ outcome' = "error")]_vars
    /\ [][(TaskSteps /\ pc = "sleep" /\ outcome = "error")
            => (task' = "running" /\ pc' = "fetch" /\ inflight'.op = "fetch")]_vars

C7_Witness ==
    /\ task = "running" /\ pc = "fetch" /\ inflight.st = "err" /\ owed # {}

\* C8: before the ready event has been set for the first time the engine
\* has started no fetch, send or delete; and once the loop has left the
\* wait for readiness it never returns to it, also when the event is
\* cleared again.
C8_PollingOnlyAfterReady ==
    /\ [](~everReady => (/\ inflight = Idle
                         /\ pc \in {"none", "wait_ready"}
                         /\ attempted = <<>>
                         /\ StoreIds = Handed))
    /\ [][(pc \notin {"none", "wait_ready"}) => (pc' # "wait_ready")]_vars

C8_Witness == task = "running" /\ pc = "send" /\ ~ready /\ everReady

\* C9: super().close() is called, and close() returns, only when the loop
\* task is no longer running.
C9_CloseWaitsForLoop ==
    (closed \/ closePc \in {"super", "returned"}) => task # "running"

C9_Witness == closePc = "returned" /\ task = "cancelled" /\ pc = "send"

C11_NoOrphanAfterClose ==
    /\ [](closePc = "returned" => inflight.op \notin {"fetch", "delete"})
    /\ [][closePc = "returned" => StoreIds \subseteq StoreIds']_vars

\* C12 as stated: for every channel id the Messaging Client is asked at most
\* once, however many calls of _fetch_channel are made with that id (here:
\* within one cycle, which is part of one run).
C12_AtMostOneLookup == \A c \in ChannelIds : lookups[c] <= 1

\* C12, amended: once _fetch_channel has returned a handle for a channel id,
\* no later call with that id asks the Messaging Client, and every later
\* call returns the cached handle and leaves the cache as it is.
C12_CachedHandleReused ==
    [][\A c \in DOMAIN cache :
          /\ lookups'[c] \in {lookups[c], 0}
          /\ (TaskSteps /\ pc = "deliver" /\ ResolveChannelId(Notification.recipient) = c)
                => (channel' = cache[c] /\ cache' = cache /\ pc' = "send")]_vars

C12_Witness ==
    /\ task = "running" /\ pc = "send" /\ idx = 2
    /\ batch[1].id \in cycleSent
    /\ ResolveChannelId(batch[1].recipient) = ResolveChannelId(batch[2].recipient)
    /\ lookups[ResolveChannelId(batch[2].recipient)] = 1
    /\ channel = cache[ResolveChannelId(batch[2].recipient)]

\* C13: the cache only grows: an entry is never removed or replaced; an
\* entry is added only with the channel object the Messaging Client gave
\* for that id in the same call of _fetch_channel; and every entry is a
\* Messageable handle of its own channel id.
C13_CacheOnlyGrows ==
    /\ [][\A c \in DOMAIN cache : c \in DOMAIN cache' /\ cache'[c] = cache[c]]_vars
    /\ [][\A c \in DOMAIN cache' \ DOMAIN cache :
             \/ /\ pc = "fetch_channel" /\ inflight.op = "fetch_channel"
                /\ inflight.arg = c /\ inflight.val = cache'[c]
             \/ /\ pc = "deliver" /\ lookups'[c] = lookups[c] + 1
                /\ c = ResolveChannelId(batch[idx].recipient)]_vars
    /\ [](\A c \in DOMAIN cache : Messageable(cache[c]) /\ cache[c][1] = c)

C13_Witness ==
    /\ DOMAIN cache = ChannelIds
    /\ pc = "fetch" /\ outcome = "none"
    /\ \E i \in Ids : delivered[i] # "never"

\* C14 as stated: whatever the channel map and the default id, the
\* recipients "self" and None resolve to the default id, without a warning.
C14_SelfAndNoneGiveDefault ==
    (call.fn = "resolve" /\ call.st = "done" /\ call.args.recipient \in {"self", None})
        => call.result = [id |-> call.args.dflt, warned |-> FALSE]

\* C15: a send in flight is the send of the current record, on the handle
\* of the channel id _resolve_channel_id gives for that record's recipient:
\* the mapped id when the recipient is a key of the channel map, the default
\* id otherwise; so never on the handle of another channel id.
C15_SendGoesToResolvedTarget ==
    inflight.op = "send" =>
        /\ idx \in 1..Len(batch)
        /\ inflight.arg = batch[idx].id
        /\ channel = Handle(ResolveChannelId(batch[idx].recipient))
        /\ channel[1] = IF Truthy(batch[idx].recipient)
                           /\ batch[idx].recipient \in DOMAIN channel_map
                        THEN channel_map[batch[idx].recipient]
                        ELSE default_channel_id

C15_Witness ==
    /\ inflight.op = "send" /\ inflight.st = "pending" /\ idx = 2
    /\ batch[1].recipient = "self" /\ batch[1].id \in cycleSent
    /\ batch[2].recipient = "known" /\ channel = Handle(channel_map["known"])

\* The entries of a configuration string, and what the spec calls them: a
\* blank entry is no entry; a valid entry has "=", a recipient that is not
\* empty and a numeric id; every other entry is malformed.
EntriesOf(raw) == IF raw = <<>> THEN <<>> ELSE Split(raw, ",")

Blank(e) == Strip(e) = <<>>

RecipientOf(e) == Strip(SplitOnce(e, "=")[1])

IdTextOf(e) == Strip(SplitOnce(e, "=")[2])

ValidEntry(e) == IndexOf(e, "=") # 0 /\ RecipientOf(e) # <<>> /\ IsInt(IdTextOf(e))

ValidAt(es) == {k \in 1..Len(es) : ValidEntry(es[k])}

MalformedAt(es) == {k \in 1..Len(es) : ~Blank(es[k]) /\ ~ValidEntry(es[k])}

\* Valid entries whose recipient is that of an earlier valid entry.
DuplicateAt(es) ==
    {k \in ValidAt(es) :
        \E j \in ValidAt(es) : j < k /\ RecipientOf(es[j]) = RecipientOf(es[k])}

\* C16 as stated: parse_channel_map returns, a duplicate-key entry does not
\* change the mapping (each recipient keeps the id of its first valid
\* entry), and there is one warning for every malformed entry and for every
\* duplicate-key entry.
C16_DuplicatesSkippedWithWarning ==
    (call.fn = "parse" /\ call.st = "done") =>
        LET es == EntriesOf(call.args)
            kept == ValidAt(es) \ DuplicateAt(es)
        IN  /\ DOMAIN call.result.mapping = {RecipientOf(es[k]) : k \in kept}
            /\ \A k \in kept :
                  call.result.mapping[RecipientOf(es[k])] = IntOf(IdTextOf(es[k]))
            /\ Len(call.result.warnings)
                  = Cardinality(MalformedAt(es)) + Cardinality(DuplicateAt(es))

\* C17: parse_channel_map returns the recipients of the valid entries, each
\* with the id of a valid entry of that recipient, and logs one warning for
\* each entry that is not blank and not valid (missing "=", missing id,
\* missing recipient, id not numeric) and no other; the example string gives
\* {a: 1, d: 7} and three warnings.
C17_ParseKeepsValidEntries ==
    (call.fn = "parse" /\ call.st = "done") =>
        LET es == EntriesOf(call.args)
        IN  /\ DOMAIN call.result.mapping = {RecipientOf(es[k]) : k \in ValidAt(es)}
            /\ \A r \in DOMAIN call.result.mapping :
                  \E k \in ValidAt(es) :
                      /\ RecipientOf(es[k]) = r
                      /\ call.result.mapping[r] = IntOf(IdTextOf(es[k]))
            /\ Len(call.result.warnings) = Cardinality(MalformedAt(es))
            /\ call.args = ExampleMap =>
                  /\ call.result.mapping
                        = [r \in {<<"a">>, <<"d">>} |-> IF r = <<"a">> THEN 1 ELSE 7]
                  /\ call.result.warnings = <<"malformed", "malformed", "invalid_id">>

C17_Witness ==
    /\ call.fn = "parse" /\ call.st = "done" /\ call.args = ExampleMap
    /\ DOMAIN call.result.mapping = {<<"a">>, <<"d">>}
    /\ Len(call.result.warnings) = 3

\* C18: the text to_discord_message returns is at most 2000 characters
\* long; when the text before truncation is longer than 2000 the result is
\* its first 1997 characters followed by "...", 2000 characters in all, and
\* the truncation is logged; otherwise the text is returned as it is and
\* nothing is logged.
C18_TruncatedTo2000 ==
    (call.fn = "format" /\ call.st = "done") =>
        LET full == Content(call.args)
            text == call.result.text
        IN  /\ Len(text) <= 2000
            /\ IF Len(full) > 2000
               THEN /\ Len(text) = 2000
                    /\ SubSeq(text, 1, 1997) = SubSeq(full, 1, 1997)
                    /\ SubSeq(text, 1998, 2000) = <<".", ".", ".">>
                    /\ call.result.logged
               ELSE text = full /\ ~call.result.logged

C18_Witness ==
    /\ call.fn = "format" /\ call.st = "done"
    /\ Len(Content(call.args)) = 2001
    /\ call.result.logged /\ Len(call.result.text) = 2000

\* C19: a cycle that has ended without an error, in which no record was
\* passed over for want of a target and no send failed, with no row in the
\* store that the cycle did not fetch: one send was made for each fetched
\* row, in ascending id order, each was accepted, and the store is empty;
\* and while such a send is in flight for a recipient that is not a key of
\* the channel map, it is on the handle of the default channel id.
C19_CleanCycleEmptiesStore ==
    /\ (pc = "sleep" /\ outcome = "ok" /\ skipped = {} /\ SendFailedIds = {}
           /\ StoreIds \subseteq BatchIds)
          => /\ attempted = [k \in 1..Len(batch) |-> batch[k].id]
             /\ \A j, k \in 1..Len(batch) : j < k => batch[j].id < batch[k].id
             /\ cycleSent = BatchIds
             /\ StoreIds = {}
    /\ (inflight.op = "send" /\ batch[idx].recipient \notin DOMAIN channel_map)
          => channel = Handle(default_channel_id)

C19_Witness ==
    /\ task = "running" /\ pc = "sleep" /\ outcome = "ok" /\ skipped = {}
    /\ Len(batch) = 2 /\ attempted = <<1, 2>> /\ cycleSent = {1, 2}
    /\ batch[1].recipient = "self" /\ batch[2].recipient = "self"
    /\ store = {}

\* C20: in one cycle at most one send is started for each record: a send is
\* started only for the current record of the batch fetched in this cycle,
\* never for an id a send was already started for in this cycle (failed or
\* not); when the task resumes from a failed send it leaves that record, and
\* the ids attempted are forgotten only where the next cycle begins with its
\* fetch.
C20_NoRetryWithinCycle ==
    /\ [](\A j, k \in 1..Len(attempted) : j # k => attempted[j] # attempted[k])
    /\ [][attempted' # attempted =>
             \/ /\ attempted' = <<>> /\ pc' = "fetch" /\ inflight' = Pending("fetch", 0)
             \/ /\ attempted' = Append(attempted, batch[idx].id)
                /\ batch[idx].id \notin AttemptedIds
                /\ batch' = batch /\ idx' = idx]_vars
    /\ [][(TaskSteps /\ pc = "send" /\ inflight.st = "err")
             => (inflight'.op # "send" /\ (idx' = idx + 1 \/ pc' = "sleep"))]_vars

C20_Witness ==
    /\ task = "running" /\ pc = "sleep" /\ outcome = "ok"
    /\ Len(batch) = 2 /\ attempted = <<batch[1].id, batch[2].id>>
    /\ batch[1].id \in SendFailedIds /\ batch[2].id \in SendFailedIds
    /\ InStore(batch[1].id)

\* C21: when the task resumes from a delete that raised, it leaves the
\* batch where it is and goes to the sleep, still running, with nothing
\* started and the store as it was; and in a cycle that ended with an error
\* no record after the position the loop stopped at has had a send or a
\* delete: none was attempted, none was accepted, each is still stored.
C21_FailedDeleteAbortsCycle ==
    /\ [][(TaskSteps /\ pc = "delete" /\ inflight.st = "err")
             => /\ pc' = "sleep" /\ task' = "running" /\ outcome' = "error"
                /\ idx' = idx /\ batch' = batch /\ inflight' = Idle
                /\ store' = store /\ attempted' = attempted]_vars
    /\ []((task = "running" /\ pc = "sleep" /\ outcome = "error")
             => /\ inflight = Idle
                /\ \A k \in (idx + 1)..Len(batch) :
                      /\ batch[k].id \notin AttemptedIds
                      /\ batch[k].id \notin cycleSent
                      /\ InStore(batch[k].id))

C21_Witness ==
    /\ task = "running" /\ pc = "sleep" /\ outcome = "error"
    /\ Len(batch) = 2 /\ idx = 1
    /\ batch[1].id \in cycleSent /\ batch[1].id \in owed /\ InStore(batch[1].id)
    /\ attempted = <<batch[1].id>> /\ InStore(batch[2].id)

\* Ids of rows that were in the Queue Store and have been deleted.
DeletedIds == Handed \ StoreIds

\* C22: for a row that has been deleted no send is started and none is in
\* flight, no message is accepted by the platform, and the row does not come
\* back to the store; so a row is sent twice only while it is still stored.
C22_NoSendAfterDelete ==
    /\ [][(attempted' # attempted /\ attempted' # <<>>)
             => attempted'[Len(attempted')] \notin DeletedIds]_vars
    /\ [][\A i \in DeletedIds : i \in DeletedIds' /\ delivered'[i] = delivered[i]]_vars
    /\ [](\A i \in DeletedIds :
             /\ ~(inflight.op = "send" /\ inflight.arg = i)
             /\ \A k \in (idx + 1)..Len(batch) : batch[k].id # i)

C22_Witness ==
    /\ task = "running" /\ pc = "send" /\ inflight.st = "pending"
    /\ \E i \in DeletedIds :
          /\ delivered[i] = "once" /\ i \notin BatchIds
          /\ inflight.arg # i /\ delivered[inflight.arg] = "once"

====
